---- MODULE Spec2Model ----
(***************************************************************************)
(* Grading orchestration of the teacher-assistant repository:              *)
(* services/grading_service.py over the tables of database/models.py.      *)
(*                                                                         *)
(* Python values are represented as follows.                               *)
(*   - a text column or str is a sequence of one-character strings;        *)
(*     None / SQL NULL of a text is the one-element sequence NoneText;     *)
(*   - a short label (part_label) is a TLA+ string, None is NoneLabel;     *)
(*   - a JSON document kept in a Text column is <<"json", v>> for the      *)
(*     document json.dumps(v) produced, <<>> for the empty string,         *)
(*     NoneText for NULL and <<"garbage">> for text json.loads rejects;    *)
(*   - a message built with an f-string is the sequence of its parts.      *)
(***************************************************************************)
EXTENDS Integers, Sequences, FiniteSets, TLC

\* ------------------------------------------------------------------ bounds
\* grade_submission invocations started in one behaviour
MaxPasses == 2
\* answer fragments (submission_items rows) of the submission under test
MaxItems == 2
\* report calls (get_or_generate_report, build_final_report) started in one behaviour
MaxReports == 3
\* matching runs recorded in one behaviour
MaxRuns == 2
\* the greatest difficulty rank of a question
MaxDifficulty == 10

\* --------------------------------------------------------- program constants
CTX_MAX_CHARS_QUESTION == 1200
CTX_MAX_CHARS_ANSWER == 1200

NoneText == <<"<None>">>
NoneLabel == "<None>"

\* ------------------------------------------------------------ generic helpers
Range(s) == {s[i] : i \in DOMAIN s}

Min(a, b) == IF a < b THEN a ELSE b

\* Python slice s[:n]
Prefix(s, n) == SubSeq(s, 1, Min(Len(s), n))

\* Python `t or ""` on a nullable text
OrEmpty(t) == IF t = NoneText THEN <<>> ELSE t

\* Python `l or ""` on a nullable label
LabelOrEmpty(l) == IF l = NoneLabel THEN "" ELSE l

IsSpace(c) == c \in {" ", "\t", "\n"}

RECURSIVE LStrip(_)
LStrip(s) == IF s # <<>> /\ IsSpace(Head(s)) THEN LStrip(Tail(s)) ELSE s

RECURSIVE RStrip(_)
RStrip(s) ==
    IF s # <<>> /\ IsSpace(s[Len(s)]) THEN RStrip(SubSeq(s, 1, Len(s) - 1)) ELSE s

\* str.strip()
Strip(s) == RStrip(LStrip(s))

\* json.dumps(v)
json_dumps(v) == <<"json", v>>

\* _safe_json_loads(s): [] for NULL, "" and for text that does not parse
_safe_json_loads(s) ==
    IF s = NoneText \/ s = <<>> THEN <<>>
    ELSE IF Len(s) = 2 /\ s[1] = "json" THEN s[2]
    ELSE <<>>

\* ", ".join(l)
RECURSIVE Join(_)
Join(l) ==
    IF l = <<>> THEN <<>>
    ELSE IF Len(l) = 1 THEN <<l[1]>>
    ELSE <<l[1], ", ">> \o Join(Tail(l))

\* ORDER BY position: the sequences that list the set S by ascending position
\* (rows of equal position in any relative order, as ORDER BY leaves them)
OrderedByPosition(S) ==
    {s \in [1..Cardinality(S) -> S] :
        /\ \A i, j \in 1..Cardinality(S) :
              i < j => s[i] # s[j] /\ s[i].position <= s[j].position}

\* ------------------------------------------------------------ database content
\* questions table (models.Question); knowledge_topics is written by app.py as
\* json.dumps of a list of at most four strings
Questions ==
    { [id |-> 1, exam_id |-> 1, order_index |-> 1, part_label |-> "a",
       question_text |-> <<"Q", "1", "a">>, difficulty |-> 3,
       knowledge_topics |-> json_dumps(<<"t1", "t2">>)],
      [id |-> 2, exam_id |-> 1, order_index |-> 1, part_label |-> "b",
       question_text |-> <<"Q", "1", "b">>, difficulty |-> 7,
       knowledge_topics |-> json_dumps(<<"t3">>)],
      [id |-> 3, exam_id |-> 1, order_index |-> 2, part_label |-> NoneLabel,
       question_text |-> <<"Q", "2">>, difficulty |-> 9,
       knowledge_topics |-> json_dumps(<<>>)],
      [id |-> 4, exam_id |-> 2, order_index |-> 1, part_label |-> "a",
       question_text |-> <<"Q", "x">>, difficulty |-> 5,
       knowledge_topics |-> json_dumps(<<"t4">>)] }

\* submissions table (models.Submission): 1 and 2 sit exams with questions, 3 sits
\* an exam without questions; no row has id 4
Submissions ==
    { [id |-> 1, exam_id |-> 1], [id |-> 2, exam_id |-> 2], [id |-> 3, exam_id |-> 3] }

SubmissionIds == {1, 2, 3, 4}

\* the fragments a submission of exam 1 is built from (models.SubmissionItem
\* without id, submission_id and position); question_id 9 names no question
ItemTemplates ==
    { [question_id |-> 1, order_index |-> 1, part_label |-> "a", answer_text |-> <<"x">>],
      [question_id |-> 2, order_index |-> 1, part_label |-> "b", answer_text |-> <<"y">>],
      [question_id |-> 2, order_index |-> 1, part_label |-> "b", answer_text |-> <<" ">>],
      [question_id |-> 1, order_index |-> 1, part_label |-> "a", answer_text |-> <<>>],
      [question_id |-> 3, order_index |-> 2, part_label |-> "", answer_text |-> <<"z">>],
      [question_id |-> 9, order_index |-> 1, part_label |-> "a", answer_text |-> <<"v">>] }

\* a row of submission_items
MakeItem(t, sub, n) ==
    [id |-> n, submission_id |-> sub, question_id |-> t.question_id,
     order_index |-> t.order_index, part_label |-> t.part_label,
     position |-> n, answer_text |-> t.answer_text]

\* the fixed rows of submissions 2 and 3
OtherItems ==
    { [id |-> 11, submission_id |-> 2, question_id |-> 4, order_index |-> 1,
       part_label |-> "a", position |-> 1, answer_text |-> <<"u">>],
      [id |-> 12, submission_id |-> 2, question_id |-> 1, order_index |-> 1,
       part_label |-> "a", position |-> 2, answer_text |-> <<"x">>],
      [id |-> 13, submission_id |-> 3, question_id |-> 1, order_index |-> 1,
       part_label |-> "a", position |-> 1, answer_text |-> <<"x">>] }

\* the questions that may have a question_solutions row
SolutionChoices == { {1, 2, 3, 4}, {1, 3, 4} }

\* the question_solutions row of a question (models.QuestionSolution), as the
\* dict get_solution_by_question returns
SolutionOf(question_id) ==
    LET d == CASE question_id = 1 -> "1" [] question_id = 2 -> "2"
               [] question_id = 3 -> "3" [] OTHER -> "4"
    IN  [solution_text |-> <<"S", d>>, final_answer |-> <<"F", d>>,
         reasoning_approach |-> <<"B", d>>]

\* ------------------------------------------------------------ database reads
\* get_questions_by_exam without its filter on exam_id
GetQuestionsOfAnyExam(exam_id) ==
    LET before(x, y) == x.order_index < y.order_index
                        \/ (x.order_index = y.order_index /\ x.id <= y.id)
    IN  CHOOSE s \in [1..Cardinality(Questions) -> Questions] :
            \A i, j \in 1..Cardinality(Questions) :
                i < j => s[i] # s[j] /\ before(s[i], s[j])

\* get_questions_by_exam filtering on a fixed exam instead of its argument
GetQuestionsOfFirstExam(exam_id) ==
    LET S == {q \in Questions : q.exam_id = 1}
        before(x, y) == x.order_index < y.order_index
                        \/ (x.order_index = y.order_index /\ x.id <= y.id)
    IN  CHOOSE s \in [1..Cardinality(S) -> S] :
            \A i, j \in 1..Cardinality(S) : i < j => s[i] # s[j] /\ before(s[i], s[j])

\* db.get_questions_by_exam: ORDER BY order_index, id (id is unique: one order)
get_questions_by_exam(exam_id) ==
    LET S == {q \in Questions : q.exam_id = exam_id}
        before(x, y) == x.order_index < y.order_index
                        \/ (x.order_index = y.order_index /\ x.id <= y.id)
    IN  CHOOSE s \in [1..Cardinality(S) -> S] :
            \A i, j \in 1..Cardinality(S) : i < j => s[i] # s[j] /\ before(s[i], s[j])

\* _get_submission: the row, or the empty set for None
_get_submission(submission_id) == {s \in Submissions : s.id = submission_id}

\* db.get_submission_items: ORDER BY position; every order the database may return
get_submission_items(rows, submission_id) ==
    OrderedByPosition({a \in rows : a.submission_id = submission_id})

\* ------------------------------------------------------------ _match_pairs
\* q_lookup[key] after the loop of lines 333-335: the last question of the list
\* with that (order_index, part_label or ""); 0 when the key is absent
q_lookup(questions, oi, pl) ==
    LET hits == {i \in DOMAIN questions :
                    questions[i].order_index = oi
                    /\ LabelOrEmpty(questions[i].part_label) = pl}
    IN  IF hits = {} THEN 0 ELSE CHOOSE i \in hits : \A j \in hits : j <= i

\* the lookup by (order_index, part_label) also tried when the explicit
\* question_id names no question of the list
MatchIndexWithFallback(questions, a) ==
    LET hits == {i \in DOMAIN questions : questions[i].id = a.question_id}
    IN  IF a.question_id # 0 /\ hits # {}
        THEN CHOOSE i \in hits : \A j \in hits : i <= j
        ELSE q_lookup(questions, a.order_index, LabelOrEmpty(a.part_label))

\* lines 342-348: the index in questions of the question matched to fragment a,
\* 0 for None. A truthy question_id is looked up by id and nothing else.
MatchIndex(questions, a) ==
    IF a.question_id # 0
    THEN LET hits == {i \in DOMAIN questions : questions[i].id = a.question_id}
         IN  IF hits = {} THEN 0 ELSE CHOOSE i \in hits : \A j \in hits : i <= j
    ELSE q_lookup(questions, a.order_index, LabelOrEmpty(a.part_label))

\* pairs_by_order[g] of line 354: the pairs of group g in the order of items
RECURSIVE PairsOfGroup(_, _, _)
PairsOfGroup(questions, items, g) ==
    IF items = <<>> THEN <<>>
    ELSE LET a == Head(items)
             i == MatchIndex(questions, a)
         IN  (IF i # 0 /\ questions[i].order_index = g
              THEN <<[q |-> questions[i], a |-> a]>> ELSE <<>>)
             \o PairsOfGroup(questions, Tail(items), g)

\* the keys of pairs_by_order
MatchedGroups(questions, items) ==
    {questions[MatchIndex(questions, items[k])].order_index :
        k \in {n \in DOMAIN items : MatchIndex(questions, items[n]) # 0}}

\* line 351 without the append: fragments that match no question are dropped
MismatchesDropped(questions, items) == <<>>

\* the mismatches list of line 351
Mismatches(questions, items) ==
    SelectSeq(items, LAMBDA a : MatchIndex(questions, a) = 0)

\* _match_pairs: (pairs_by_order, mismatches)
_match_pairs(questions, items) ==
    [pairs_by_order |-> [g \in MatchedGroups(questions, items) |->
                            PairsOfGroup(questions, items, g)],
     mismatches |-> Mismatches(questions, items)]

\* the groups visited from the greatest key down (sorted(..., reverse=True))
RECURSIVE FlattenDescending(_, _)
FlattenDescending(q_map_qa, groups) ==
    IF groups = {} THEN <<>>
    ELSE LET g == CHOOSE x \in groups : \A y \in groups : y <= x
         IN  q_map_qa[g] \o FlattenDescending(q_map_qa, groups \ {g})

\* the pairs in the order the two loops of lines 202-207 visit them
RECURSIVE Flatten(_, _)
Flatten(q_map_qa, groups) ==
    IF groups = {} THEN <<>>
    ELSE LET g == CHOOSE x \in groups : \A y \in groups : x <= y
         IN  q_map_qa[g] \o Flatten(q_map_qa, groups \ {g})

\* ------------------------------------------------------------ context chain
\* an entry whose student_answer is not cut
ContextEntryUncut(pair) ==
    [part_label |-> LabelOrEmpty(pair.q.part_label),
     question_text |-> Prefix(OrEmpty(pair.q.question_text), CTX_MAX_CHARS_QUESTION),
     student_answer |-> OrEmpty(pair.a.answer_text),
     item_id |-> pair.a.id]

\* one entry of the list _build_context returns; item_id is a ghost field naming
\* the fragment the entry was built from
ContextEntry(pair) ==
    [part_label |-> LabelOrEmpty(pair.q.part_label),
     question_text |-> Prefix(OrEmpty(pair.q.question_text), CTX_MAX_CHARS_QUESTION),
     student_answer |-> Prefix(OrEmpty(pair.a.answer_text), CTX_MAX_CHARS_ANSWER),
     item_id |-> pair.a.id]

\* _build_context with the test of line 363 inverted (== for !=)
RECURSIVE BuildContextInverted(_, _)
BuildContextInverted(order_index, stack) ==
    IF stack = <<>> THEN <<>>
    ELSE (IF Head(stack).q.order_index = order_index THEN <<>>
          ELSE <<ContextEntry(Head(stack))>>)
         \o BuildContextInverted(order_index, Tail(stack))

RECURSIVE _build_context(_, _)
_build_context(order_index, stack) ==
    IF stack = <<>> THEN <<>>
    ELSE (IF Head(stack).q.order_index # order_index THEN <<>>
          ELSE <<ContextEntry(Head(stack))>>)
         \o _build_context(order_index, Tail(stack))

\* _make_payload
_make_payload(pair, c) ==
    [current |-> [order_index |-> pair.q.order_index,
                  part_label |-> LabelOrEmpty(pair.q.part_label),
                  question_text |-> Prefix(OrEmpty(pair.q.question_text), CTX_MAX_CHARS_QUESTION),
                  student_answer |-> Prefix(OrEmpty(pair.a.answer_text), CTX_MAX_CHARS_ANSWER)],
     context_previous |-> c]

\* line 208: not (a.answer_text or "").strip()
IsBlank(a) == Strip(OrEmpty(a.answer_text)) = <<>>

\* ------------------------------------------------------------ the oracle
SchemaFields == {"knowledge_gaps", "calculation_logic_errors", "llm_feedback", "is_correct"}

\* what _client.chat.completions.create may do for the grading request: raise, or
\* return a message whose content json.loads rejects, or one it accepts
OracleOutcomes ==
    { [kind |-> "raise", value |-> [none |-> TRUE]],
      [kind |-> "garbage", value |-> [none |-> TRUE]],
      [kind |-> "json", value |-> [knowledge_gaps |-> <<"gap">>,
                                   calculation_logic_errors |-> <<"err">>,
                                   llm_feedback |-> <<"feedback">>, is_correct |-> TRUE]],
      [kind |-> "json", value |-> [llm_feedback |-> <<"feedback">>, is_correct |-> TRUE]] }

\* the except branch returning the bare schema default instead of its messages
FallbackSchemaDefault(what) ==
    [knowledge_gaps |-> <<>>, calculation_logic_errors |-> <<>>,
     llm_feedback |-> <<>>, is_correct |-> FALSE]

\* the except branch of _call_grading_ai, lines 176-182; what is str(e)
FallbackGrading(what) ==
    [knowledge_gaps |-> <<"Khong the phan tich do loi he thong">>,
     calculation_logic_errors |-> <<>>,
     llm_feedback |-> <<"Loi khi cham bai: ", what>>,
     is_correct |-> FALSE]

\* _call_grading_ai with json.loads outside the try block: a response that does not
\* parse leaves no value and the exception reaches grade_submission
CallGradingAiUnguarded(o) ==
    IF o.kind = "raise" THEN FallbackGrading("APIError") ELSE o.value

\* _call_grading_ai without its try block: an exception of the request leaves
\* no value
CallGradingAiUncaught(o) ==
    IF o.kind = "raise" THEN [none |-> TRUE]
    ELSE IF o.kind = "garbage" THEN FallbackGrading("JSONDecodeError")
    ELSE o.value

\* _call_grading_ai: the value returned for an outcome of the request
_call_grading_ai(o) ==
    IF o.kind = "raise" THEN FallbackGrading("APIError")
    ELSE IF o.kind = "garbage" THEN FallbackGrading("JSONDecodeError")
    ELSE o.value

\* the state of the recovery protocol _call_grading_ai ends in
RecoveryOutcome(o) == IF o.kind = "json" THEN "Parsed" ELSE "Failed"

\* _create_missing_grading passing an empty list for knowledge_gaps
MissingGradingNoTopics(q) ==
    [knowledge_gaps |-> <<>>,
     calculation_logic_errors |-> <<>>,
     llm_feedback |-> <<"Hoc sinh khong lam cau nay.">>,
     is_correct |-> FALSE]

\* _create_missing_grading, lines 467-484: the arguments it passes to _save_grading_new
MissingGrading(q) ==
    LET knowledge_topics == _safe_json_loads(q.knowledge_topics)
    IN  [knowledge_gaps |-> knowledge_topics,
         calculation_logic_errors |-> <<>>,
         llm_feedback |-> IF knowledge_topics # <<>>
                          THEN <<"Hoc sinh khong lam cau nay. Can on tap: ">>
                               \o Join(knowledge_topics)
                          ELSE <<"Hoc sinh khong lam cau nay.">>,
         is_correct |-> FALSE]

\* ------------------------------------------------------------ gradings table
\* the row built without its judgement text
NewRowWithoutFeedback(n, submission_id, question_id, g) ==
    [id |-> n, submission_id |-> submission_id, question_id |-> question_id,
     knowledge_gaps |-> json_dumps(g.knowledge_gaps),
     calculation_logic_errors |-> json_dumps(g.calculation_logic_errors),
     llm_feedback |-> NoneText,
     is_correct |-> IF g.is_correct THEN 1 ELSE 0,
     final_score |-> NoneLabel]

\* the Grading row _save_grading_new builds in lines 445-453
NewRow(n, submission_id, question_id, g) ==
    [id |-> n, submission_id |-> submission_id, question_id |-> question_id,
     knowledge_gaps |-> json_dumps(g.knowledge_gaps),
     calculation_logic_errors |-> json_dumps(g.calculation_logic_errors),
     llm_feedback |-> g.llm_feedback,
     is_correct |-> IF g.is_correct THEN 1 ELSE 0,
     final_score |-> NoneLabel]

\* the query with its two arguments exchanged
FirstRowSwapped(table, submission_id, question_id) ==
    LET hits == {i \in DOMAIN table : table[i].submission_id = question_id
                                      /\ table[i].question_id = submission_id}
    IN  IF hits = {} THEN 0 ELSE CHOOSE i \in hits : \A j \in hits : i <= j

\* lines 439-443: .filter(submission_id, question_id).first(); 0 for None
FirstRow(table, submission_id, question_id) ==
    LET hits == {i \in DOMAIN table : table[i].submission_id = submission_id
                                      /\ table[i].question_id = question_id}
    IN  IF hits = {} THEN 0 ELSE CHOOSE i \in hits : \A j \in hits : i <= j

\* _save_grading_new adding a row whatever the query found
WriteRowAlwaysInsert(table, row, submission_id, question_id, g) ==
    Append(table, NewRow(Len(table) + 1, submission_id, question_id, g))

\* _save_grading_new leaving a row it found as it is
WriteRowInsertOnly(table, row, submission_id, question_id, g) ==
    IF row = 0
    THEN Append(table, NewRow(Len(table) + 1, submission_id, question_id, g))
    ELSE table

\* lines 444-461: insert when the query found no row, else overwrite the row found
WriteRow(table, row, submission_id, question_id, g) ==
    IF row = 0
    THEN Append(table, NewRow(Len(table) + 1, submission_id, question_id, g))
    ELSE [table EXCEPT ![row] =
            NewRow(table[row].id, submission_id, question_id, g)]

\* the GradingResult of lines 230-239
GradingResult(submission_id, q, g) ==
    [submission_id |-> submission_id, question_id |-> q.id,
     order_index |-> q.order_index, part_label |-> LabelOrEmpty(q.part_label),
     knowledge_gaps |-> g.knowledge_gaps,
     calculation_logic_errors |-> g.calculation_logic_errors,
     llm_feedback |-> g.llm_feedback, is_correct |-> g.is_correct]

\* ------------------------------------------------------------ reports
\* the submissions a report is asked for
ReportIds == {1, 2}

\* what the report request of build_final_report may do: raise, or return a
\* message with some Markdown content
ReportOutcomes ==
    { [kind |-> "raise", content |-> NoneText],
      [kind |-> "text", content |-> <<"R1">>],
      [kind |-> "text", content |-> <<"R2">>] }

\* the except branch of line 305
ReportError == <<"Khong the tao bao cao do loi he thong.">>

\* every question, ORDER BY order_index, id (line 254)
QuestionsOrdered ==
    LET before(x, y) == x.order_index < y.order_index
                        \/ (x.order_index = y.order_index /\ x.id <= y.id)
    IN  CHOOSE s \in [1..Cardinality(Questions) -> Questions] :
            \A i, j \in 1..Cardinality(Questions) :
                i < j => s[i] # s[j] /\ before(s[i], s[j])

\* one record of the compact list, lines 262-270
CompactEntry(g, q) ==
    [order_index |-> q.order_index,
     part_label |-> LabelOrEmpty(q.part_label),
     question_text |-> Prefix(OrEmpty(q.question_text), CTX_MAX_CHARS_QUESTION),
     knowledge_gaps |-> _safe_json_loads(g.knowledge_gaps),
     calculation_logic_errors |-> _safe_json_loads(g.calculation_logic_errors),
     llm_feedback |-> OrEmpty(g.llm_feedback),
     is_correct |-> g.is_correct # 0]

\* lines 251-270: the gradings of the submission joined with their question, in
\* the order of the questions
RECURSIVE CompactFrom(_, _, _)
CompactFrom(table, submission_id, qs) ==
    IF qs = <<>> THEN <<>>
    ELSE LET q == Head(qs)
             rows == SelectSeq(table, LAMBDA g : /\ g.submission_id = submission_id
                                                 /\ g.question_id = q.id)
         IN  [n \in DOMAIN rows |-> CompactEntry(rows[n], q)]
             \o CompactFrom(table, submission_id, Tail(qs))

Compact(table, submission_id) == CompactFrom(table, submission_id, QuestionsOrdered)

\* SubmissionReport.created_at of a row saved at clock reading now
created_at_default(now) == now

\* the clock reading at a save: every save reads a later time than the saves
\* committed before it
Now(table) == Len(table) + 1

\* save_submission_report overwriting the newest report of the submission when
\* there is one
SaveReportOverwrite(table, submission_id, report_content) ==
    LET hits == {i \in DOMAIN table : table[i].submission_id = submission_id}
    IN  IF hits = {}
        THEN Append(table, [id |-> Len(table) + 1, submission_id |-> submission_id,
                            report_content |-> report_content,
                            created_at |-> created_at_default(Now(table))])
        ELSE LET i == CHOOSE x \in hits : \A y \in hits : y <= x
             IN  [table EXCEPT ![i].report_content = report_content,
                               ![i].created_at = created_at_default(Now(table))]

\* db.save_submission_report: one new row
save_submission_report(table, submission_id, report_content) ==
    Append(table, [id |-> Len(table) + 1, submission_id |-> submission_id,
                   report_content |-> report_content,
                   created_at |-> created_at_default(Now(table))])

\* get_submission_report ordering by created_at ascending
GetOldestReport(table, submission_id) ==
    LET hits == {i \in DOMAIN table : table[i].submission_id = submission_id}
    IN  IF hits = {} THEN 0
        ELSE CHOOSE i \in hits : \A j \in hits : table[i].created_at <= table[j].created_at

\* db.get_submission_report: ORDER BY created_at DESC, first(); 0 for None
get_submission_report(table, submission_id) ==
    LET hits == {i \in DOMAIN table : table[i].submission_id = submission_id}
    IN  IF hits = {} THEN 0
        ELSE CHOOSE i \in hits : \A j \in hits : table[j].created_at <= table[i].created_at

\* get_latest_report without the ORDER BY: the row inserted first
GetFirstReport(table, submission_id) ==
    LET hits == {i \in DOMAIN table : table[i].submission_id = submission_id}
    IN  IF hits = {} THEN 0 ELSE CHOOSE i \in hits : \A j \in hits : i <= j

\* db.get_latest_report
get_latest_report(table, submission_id) == get_submission_report(table, submission_id)

\* ------------------------------------------------------------ state
\* the two callers that may run grade_submission at once (Streamlit sessions);
\* the sequential specification runs the first one only
Procs == {1, 2}
SeqProcs == {1}

VARIABLES
    submission_items,   \* the submission_items table
    solutions,          \* the question ids that have a question_solutions row
    gradings,           \* the gradings table, in insertion order
    passes,             \* grade_submission invocations started so far
    pc,                 \* where each caller is in grade_submission
    sid,                \* its submission_id argument
    todo,               \* the matched pairs in the order the loops visit them
    pos,                \* the index in todo of the pair being handled
    mismatches,         \* the mismatches list _match_pairs returned
    context_stack,      \* line 205
    ctx,                \* line 213, the context built for the current pair
    grading_data,       \* line 218, or the arguments of _create_missing_grading
    found,              \* the row the query of _save_grading_new returned, 0 for None
    results,            \* line 199
    calls,              \* the requests sent to the grading oracle in this pass
    answers,            \* what the oracle did with each of them
    rstate,             \* the state of the recovery protocol for the current pair
    first_sid,          \* history: the submission of the first pass
    first_answers,      \* history: the oracle's answers in the first pass
    first_rows,         \* history: the rows of that submission after the first pass
    reports,            \* the submission_reports table, in insertion order
    rcalls,             \* the requests each caller's report call sent to the oracle
    rcount,             \* report calls started so far
    rpc,                \* where each caller is in a report call
    rkind,              \* "get" for get_or_generate_report, "build" for build_final_report
    rsid,               \* its submission_id argument
    rtext,              \* report_content, line 294
    rret,               \* the value the report call returned
    rstart,             \* history: the reports table when the call began
    rpass,              \* history: the grading passes started when the call began
    overlapped,         \* history: the call ran while another caller's call for the
                        \* same submission was in progress
    prev,               \* history: the report call the caller made before this one
    m_runs,             \* the matching runs made: the fragment list read and the result
    c_run,              \* the last application of _build_context: arguments and result
    e_runs              \* the applications of _get_reasoning_effort: argument and result

locals == <<pc, sid, todo, pos, mismatches, context_stack, ctx, grading_data, found,
            results, calls, answers, rstate>>
db == <<submission_items, solutions, gradings>>
history == <<first_sid, first_answers, first_rows>>
reporting == <<reports, rcalls, rcount, rpc, rkind, rsid, rtext, rret, rstart, rpass,
              overlapped, prev>>
applied == <<m_runs, c_run, e_runs>>
vars == <<db, passes, locals, history, reporting, applied>>

\* no earlier report call
NoCall == [kind |-> "none", sid |-> 0, ret |-> NoneText, passes |-> 0]

\* the pair a caller is handling
Cur(p) == todo[p][pos[p]]

\* the rows of one submission (build_final_report's filter, line 255)
RowsOf(table, submission_id) ==
    SelectSeq(table, LAMBDA r : r.submission_id = submission_id)

\* the submission_items tables the model starts from: submission 1 holds up to
\* MaxItems fragments at positions 1, 2, ...; the other submissions are fixed
ItemTables ==
    UNION { { {MakeItem(ts[n], 1, n) : n \in 1..k} \cup OtherItems :
              ts \in [1..k -> ItemTemplates] } : k \in 0..MaxItems }

\* the state of a fresh process over an empty gradings and reports table
InitRest ==
    /\ gradings = <<>>
    /\ passes = 0
    /\ pc = [p \in Procs |-> "idle"]
    /\ sid = [p \in Procs |-> 0]
    /\ todo = [p \in Procs |-> <<>>]
    /\ pos = [p \in Procs |-> 1]
    /\ mismatches = [p \in Procs |-> <<>>]
    /\ context_stack = [p \in Procs |-> <<>>]
    /\ ctx = [p \in Procs |-> <<>>]
    /\ grading_data = [p \in Procs |-> [none |-> TRUE]]
    /\ found = [p \in Procs |-> 0]
    /\ results = [p \in Procs |-> <<>>]
    /\ calls = [p \in Procs |-> <<>>]
    /\ answers = [p \in Procs |-> <<>>]
    /\ rstate = [p \in Procs |-> "None"]
    /\ first_sid = 0
    /\ first_answers = <<>>
    /\ first_rows = <<>>
    /\ reports = <<>>
    /\ rcalls = [p \in Procs |-> <<>>]
    /\ rcount = 0
    /\ rpc = [p \in Procs |-> "idle"]
    /\ rkind = [p \in Procs |-> "none"]
    /\ rsid = [p \in Procs |-> 0]
    /\ rtext = [p \in Procs |-> NoneText]
    /\ rret = [p \in Procs |-> NoneText]
    /\ rstart = [p \in Procs |-> <<>>]
    /\ rpass = [p \in Procs |-> 0]
    /\ overlapped = [p \in Procs |-> FALSE]
    /\ prev = [p \in Procs |-> NoCall]
    /\ m_runs = <<>>
    /\ c_run = <<>>
    /\ e_runs = <<>>

Init ==
    /\ submission_items \in ItemTables
    /\ solutions \in SolutionChoices
    /\ InitRest

\* ------------------------------------------------------------ grade_submission
\* lines 188-199: the caller invokes grade_submission(s); a missing submission
\* returns [] at once, otherwise the pairs are matched and the loops begin
Enter(p, s) ==
    /\ pc[p] \in {"idle", "done", "raised", "abandoned"}
    /\ passes < MaxPasses
    /\ passes' = passes + 1
    /\ sid' = [sid EXCEPT ![p] = s]
    /\ pos' = [pos EXCEPT ![p] = 1]
    /\ context_stack' = [context_stack EXCEPT ![p] = <<>>]
    /\ ctx' = [ctx EXCEPT ![p] = <<>>]
    /\ grading_data' = [grading_data EXCEPT ![p] = [none |-> TRUE]]
    /\ found' = [found EXCEPT ![p] = 0]
    /\ results' = [results EXCEPT ![p] = <<>>]
    /\ calls' = [calls EXCEPT ![p] = <<>>]
    /\ answers' = [answers EXCEPT ![p] = <<>>]
    /\ rstate' = [rstate EXCEPT ![p] = "None"]
    /\ IF _get_submission(s) = {}
       THEN /\ pc' = [pc EXCEPT ![p] = "done"]
            /\ todo' = [todo EXCEPT ![p] = <<>>]
            /\ mismatches' = [mismatches EXCEPT ![p] = <<>>]
       ELSE \E items \in get_submission_items(submission_items, s) :
                LET submission == CHOOSE x \in _get_submission(s) : TRUE
                    questions == get_questions_by_exam(submission.exam_id)
                    m == _match_pairs(questions, items)
                IN  /\ pc' = [pc EXCEPT ![p] = "loop"]
                    /\ todo' = [todo EXCEPT ![p] =
                                   Flatten(m.pairs_by_order, DOMAIN m.pairs_by_order)]
                    /\ mismatches' = [mismatches EXCEPT ![p] = m.mismatches]
    /\ UNCHANGED db
    /\ UNCHANGED <<reporting, applied>>

\* whether the pair at index k of a todo list opens its group (line 205 runs)
OpensGroup(t, k) == k = 1 \/ t[k - 1].q.order_index # t[k].q.order_index

\* context_stack as the pair at index k finds it: emptied by line 205 when the
\* pair opens its group
StackAt(t, k, stack) == IF OpensGroup(t, k) THEN <<>> ELSE stack

\* the same with line 242 moved before line 213: the pair is on the stack when
\* its own context is built
ContextForSelf(t, k, stack) ==
    _build_context(t[k].q.order_index, Append(StackAt(t, k, stack), t[k]))

\* lines 205-213: the context built for the pair at index k
ContextFor(t, k, stack) == _build_context(t[k].q.order_index, StackAt(t, k, stack))

\* lines 136-141 and 147-154: the payload grade_with_solution_comparison builds
\* and _call_grading_ai puts in the user message; question_id is a ghost field
\* naming the question the request is made for
GradingRequest(question_id, student_answer) ==
    [question_id |-> question_id,
     solution_text |-> SolutionOf(question_id).solution_text,
     final_answer |-> SolutionOf(question_id).final_answer,
     reasoning_approach |-> SolutionOf(question_id).reasoning_approach,
     student_answer |-> student_answer]

\* lines 207-218 up to the request: a blank fragment goes to
\* _create_missing_grading; otherwise the context and the payload are built and
\* grade_with_solution_comparison raises ValueError without a solution row, or
\* sends the request
Pick(p) ==
    /\ pc[p] = "loop"
    /\ pos[p] <= Len(todo[p])
    /\ LET pair == Cur(p)
           stack == StackAt(todo[p], pos[p], context_stack[p])
       IN  /\ context_stack' = [context_stack EXCEPT ![p] = stack]
           /\ IF IsBlank(pair.a)
              THEN /\ grading_data' = [grading_data EXCEPT ![p] = MissingGrading(pair.q)]
                   /\ pc' = [pc EXCEPT ![p] = "save_read"]
                   /\ rstate' = [rstate EXCEPT ![p] = "None"]
                   /\ UNCHANGED <<ctx, calls>>
              ELSE /\ ctx' = [ctx EXCEPT ![p] =
                                ContextFor(todo[p], pos[p], context_stack[p])]
                   /\ IF pair.q.id \notin solutions
                      THEN /\ pc' = [pc EXCEPT ![p] = "raised"]
                           /\ rstate' = [rstate EXCEPT ![p] = "None"]
                           /\ UNCHANGED <<calls, grading_data>>
                      ELSE /\ pc' = [pc EXCEPT ![p] = "oracle"]
                           /\ rstate' = [rstate EXCEPT ![p] = "Primary"]
                           /\ calls' = [calls EXCEPT ![p] =
                                  Append(@, GradingRequest(pair.q.id, pair.a.answer_text))]
                           /\ UNCHANGED grading_data
    /\ UNCHANGED history
    /\ UNCHANGED <<reporting, applied>>
    /\ UNCHANGED <<db, passes, sid, todo, pos, mismatches, found, results, answers>>

\* lines 156-182 and 223-226: the request ends with outcome o; _call_grading_ai
\* returns the parsed value or its fallback, and the subscripts of lines 223-226
\* raise KeyError when the value lacks a field
OracleRespond(p, o) ==
    /\ pc[p] = "oracle"
    /\ answers' = [answers EXCEPT ![p] = Append(@, o)]
    /\ grading_data' = [grading_data EXCEPT ![p] = _call_grading_ai(o)]
    /\ rstate' = [rstate EXCEPT ![p] = RecoveryOutcome(o)]
    /\ pc' = [pc EXCEPT ![p] = IF SchemaFields \subseteq DOMAIN _call_grading_ai(o)
                               THEN "save_read" ELSE "raised"]
    /\ UNCHANGED history
    /\ UNCHANGED <<reporting, applied>>
    /\ UNCHANGED <<db, passes, sid, todo, pos, mismatches, context_stack, ctx, found,
                   results, calls>>

\* _save_grading_new, lines 438-443: the query
SaveRead(p) ==
    /\ pc[p] = "save_read"
    /\ found' = [found EXCEPT ![p] = FirstRow(gradings, sid[p], Cur(p).q.id)]
    /\ pc' = [pc EXCEPT ![p] = "save_write"]
    /\ UNCHANGED history
    /\ UNCHANGED <<reporting, applied>>
    /\ UNCHANGED <<db, passes, sid, todo, pos, mismatches, context_stack, ctx,
                   grading_data, results, calls, answers, rstate>>

\* _save_grading_new, lines 444-461: insert or overwrite, commit; then, for a
\* fragment that was not blank, lines 229-242
SaveWrite(p) ==
    /\ pc[p] = "save_write"
    /\ gradings' = WriteRow(gradings, found[p], sid[p], Cur(p).q.id, grading_data[p])
    /\ IF IsBlank(Cur(p).a)
       THEN UNCHANGED <<results, context_stack>>
       ELSE /\ results' = [results EXCEPT ![p] =
                   Append(@, GradingResult(sid[p], Cur(p).q, grading_data[p]))]
            /\ context_stack' = [context_stack EXCEPT ![p] = Append(@, Cur(p))]
    /\ pc' = [pc EXCEPT ![p] = "saved"]
    /\ UNCHANGED history
    /\ UNCHANGED <<reporting, applied>>
    /\ UNCHANGED <<submission_items, solutions, passes, sid, todo, pos, mismatches, ctx,
                   grading_data, found, calls, answers, rstate>>

\* the for statement of line 207 moves to the next pair
Advance(p) ==
    /\ pc[p] = "saved"
    /\ pos' = [pos EXCEPT ![p] = @ + 1]
    /\ pc' = [pc EXCEPT ![p] = "loop"]
    /\ UNCHANGED history
    /\ UNCHANGED <<reporting, applied>>
    /\ UNCHANGED <<db, passes, sid, todo, mismatches, context_stack, ctx, grading_data,
                   found, results, calls, answers, rstate>>

\* line 245: return results
Return(p) ==
    /\ pc[p] = "loop"
    /\ pos[p] > Len(todo[p])
    /\ pc' = [pc EXCEPT ![p] = "done"]
    /\ UNCHANGED history
    /\ UNCHANGED <<reporting, applied>>
    /\ UNCHANGED <<db, passes, sid, todo, pos, mismatches, context_stack, ctx,
                   grading_data, found, results, calls, answers, rstate>>

\* the caller invokes grade_submission on some submission id
Call(p) ==
    /\ \E s \in SubmissionIds : Enter(p, s)
    /\ UNCHANGED history

\* the grading request ends in one of the ways it can
Respond(p) == \E o \in OracleOutcomes : OracleRespond(p, o)

\* one caller: invocations run one after another
Next ==
    \E p \in SeqProcs :
        \/ Call(p)
        \/ Pick(p)
        \/ Respond(p)
        \/ SaveRead(p)
        \/ SaveWrite(p)
        \/ Advance(p)
        \/ Return(p)

Spec == Init /\ [][Next]_vars

\* ------------------------------------------------------------ two callers at once
\* two Streamlit sessions grade at the same time; each step of a caller (a request,
\* a response, the query and the commit of _save_grading_new) is atomic, and the
\* gradings table has no unique constraint on (submission_id, question_id)
InitConc ==
    /\ Init
    /\ Cardinality({a \in submission_items : a.submission_id = 1}) <= 1

NextConc ==
    \E p \in Procs :
        \/ Call(p)
        \/ Pick(p)
        \/ Respond(p)
        \/ SaveRead(p)
        \/ SaveWrite(p)
        \/ Advance(p)
        \/ Return(p)

SpecConc == InitConc /\ [][NextConc]_vars

\* ------------------------------------------------------------ the same pass again
\* grade_submission runs on one submission, then again on the same submission with
\* the same tables and an oracle that repeats, request for request, what it did in
\* the first pass; the history variables keep the first pass
EnterFirst(p) ==
    /\ passes = 0
    /\ \E s \in SubmissionIds : Enter(p, s)
    /\ UNCHANGED history

EnterAgain(p) ==
    /\ passes >= 1
    /\ Enter(p, sid[p])
    /\ IF passes = 1
       THEN /\ first_sid' = sid[p]
            /\ first_answers' = answers[p]
            /\ first_rows' = gradings
       ELSE UNCHANGED history

RespondFirst(p) ==
    /\ passes = 1
    /\ Respond(p)

RespondAgain(p) ==
    /\ passes > 1
    /\ Len(answers[p]) < Len(first_answers)
    /\ OracleRespond(p, first_answers[Len(answers[p]) + 1])

NextIdem ==
    \E p \in SeqProcs :
        \/ EnterFirst(p)
        \/ EnterAgain(p)
        \/ RespondFirst(p)
        \/ RespondAgain(p)
        \/ Pick(p)
        \/ SaveRead(p)
        \/ SaveWrite(p)
        \/ Advance(p)
        \/ Return(p)

SpecIdem == Init /\ [][NextIdem]_vars

\* ------------------------------------------------------------ report calls
\* the caller invokes get_or_generate_report(s) (kind "get") or, as the report
\* page of app.py does, build_final_report(s) (kind "build")
RCall(p, kind, s) ==
    /\ rpc[p] \in {"idle", "returned"}
    /\ pc[p] \in {"idle", "done", "raised", "abandoned"}
    /\ rcount < MaxReports
    /\ rcount' = rcount + 1
    /\ rkind' = [rkind EXCEPT ![p] = kind]
    /\ rsid' = [rsid EXCEPT ![p] = s]
    /\ rpc' = [rpc EXCEPT ![p] = IF kind = "get" THEN "check" ELSE "query"]
    /\ rtext' = [rtext EXCEPT ![p] = NoneText]
    /\ rret' = [rret EXCEPT ![p] = NoneText]
    /\ rstart' = [rstart EXCEPT ![p] = reports]
    /\ rpass' = [rpass EXCEPT ![p] = passes]
    /\ prev' = [prev EXCEPT ![p] =
                   IF rpc[p] = "returned"
                   THEN [kind |-> rkind[p], sid |-> rsid[p], ret |-> rret[p],
                         passes |-> rpass[p]]
                   ELSE NoCall]
    /\ rcalls' = [rcalls EXCEPT ![p] = <<>>]
    /\ overlapped' =
           [q \in Procs |->
               IF q = p
               THEN \E r \in Procs \ {p} :
                        rpc[r] \notin {"idle", "returned"} /\ rsid[r] = s
               ELSE overlapped[q] \/ (rpc[q] \notin {"idle", "returned"} /\ rsid[q] = s)]
    /\ UNCHANGED applied
    /\ UNCHANGED <<db, passes, locals, history, reports>>

GetOrGenerate(p) == \E s \in ReportIds : RCall(p, "get", s)

BuildFinal(p) == \E s \in ReportIds : RCall(p, "build", s)

\* get_or_generate_report, lines 310-312: return the saved report when there is one
RCheck(p) ==
    /\ rpc[p] = "check"
    /\ LET i == get_latest_report(reports, rsid[p])
       IN  IF i # 0
           THEN /\ rret' = [rret EXCEPT ![p] = reports[i].report_content]
                /\ rpc' = [rpc EXCEPT ![p] = "returned"]
           ELSE /\ rpc' = [rpc EXCEPT ![p] = "query"]
                /\ UNCHANGED rret
    /\ UNCHANGED applied
    /\ UNCHANGED <<db, passes, locals, history, reports, rcalls, rcount, rkind, rsid,
                   rtext, rstart, rpass, overlapped, prev>>

\* build_final_report, lines 249-293: read the gradings, send the request
RQuery(p) ==
    /\ rpc[p] = "query"
    /\ rcalls' = [rcalls EXCEPT ![p] =
                     Append(@, [submission_id |-> rsid[p],
                                compact |-> Compact(gradings, rsid[p])])]
    /\ rpc' = [rpc EXCEPT ![p] = "oracle"]
    /\ UNCHANGED applied
    /\ UNCHANGED <<db, passes, locals, history, reports, rcount, rkind, rsid, rtext,
                   rret, rstart, rpass, overlapped, prev>>

\* build_final_report saving its error message as the report when the request
\* raises
RRespondSavesError(p, o) ==
    /\ rpc[p] = "oracle"
    /\ IF o.kind = "raise"
       THEN /\ rret' = [rret EXCEPT ![p] = ReportError]
            /\ reports' = save_submission_report(reports, rsid[p], ReportError)
            /\ rpc' = [rpc EXCEPT ![p] = "returned"]
            /\ UNCHANGED rtext
       ELSE /\ rtext' = [rtext EXCEPT ![p] = o.content]
            /\ rpc' = [rpc EXCEPT ![p] = "save"]
            /\ UNCHANGED <<rret, reports>>
    /\ UNCHANGED applied
    /\ UNCHANGED <<db, passes, locals, history, rcalls, rcount, rkind, rsid,
                   rstart, rpass, overlapped, prev>>

\* lines 286-294 and 304-305: the request raises and the fixed message is
\* returned, or its content is kept
RRespond(p, o) ==
    /\ rpc[p] = "oracle"
    /\ IF o.kind = "raise"
       THEN /\ rret' = [rret EXCEPT ![p] = ReportError]
            /\ rpc' = [rpc EXCEPT ![p] = "returned"]
            /\ UNCHANGED rtext
       ELSE /\ rtext' = [rtext EXCEPT ![p] = o.content]
            /\ rpc' = [rpc EXCEPT ![p] = "save"]
            /\ UNCHANGED rret
    /\ UNCHANGED applied
    /\ UNCHANGED <<db, passes, locals, history, reports, rcalls, rcount, rkind, rsid,
                   rstart, rpass, overlapped, prev>>

ReportRespond(p) == \E o \in ReportOutcomes : RRespond(p, o)

\* lines 297-303: save the report (a failure of the save is printed and
\* swallowed), return the content
RSave(p, ok) ==
    /\ rpc[p] = "save"
    /\ reports' = IF ok THEN save_submission_report(reports, rsid[p], rtext[p])
                  ELSE reports
    /\ rret' = [rret EXCEPT ![p] = rtext[p]]
    /\ rpc' = [rpc EXCEPT ![p] = "returned"]
    /\ UNCHANGED applied
    /\ UNCHANGED <<db, passes, locals, history, rcalls, rcount, rkind, rsid, rtext,
                   rstart, rpass, overlapped, prev>>

ReportSave(p) == \E ok \in BOOLEAN : RSave(p, ok)

\* the caller grades submission 1 between report calls
GradeCall(p) ==
    /\ rpc[p] \in {"idle", "returned"}
    /\ Enter(p, 1)
    /\ UNCHANGED history

\* the grading request of such a pass is answered with text that parses into a
\* judgement or with text that does not parse
GradeRespond(p) ==
    \E o \in {x \in OracleOutcomes : SchemaFields \subseteq DOMAIN _call_grading_ai(x)
                                        /\ x.kind # "raise"} :
        OracleRespond(p, o)

\* one caller grades and asks for reports, one call after another; submission 1
\* has one fragment
InitReport ==
    /\ Init
    /\ Cardinality({a \in submission_items : a.submission_id = 1}) = 1
    /\ \A a \in submission_items :
           a.submission_id = 1 => a.question_id = 1 /\ ~IsBlank(a)
    /\ solutions = {q.id : q \in Questions}

NextReport ==
    \E p \in SeqProcs :
        \/ GradeCall(p)
        \/ Pick(p)
        \/ GradeRespond(p)
        \/ SaveRead(p)
        \/ SaveWrite(p)
        \/ Advance(p)
        \/ Return(p)
        \/ GetOrGenerate(p)
        \/ BuildFinal(p)
        \/ RCheck(p)
        \/ RQuery(p)
        \/ ReportRespond(p)
        \/ ReportSave(p)

SpecReport == InitReport /\ [][NextReport]_vars

\* ------------------------------------------------------------ abandoned passes
\* the pass is abandoned between two pairs: the script running grade_submission
\* is stopped after the commit of one pair and before the next pair is taken
Abandon(p) ==
    /\ \/ pc[p] = "saved" /\ pos[p] < Len(todo[p])
       \/ pc[p] = "loop" /\ 1 < pos[p] /\ pos[p] <= Len(todo[p])
    /\ pc' = [pc EXCEPT ![p] = "abandoned"]
    /\ UNCHANGED history
    /\ UNCHANGED <<reporting, applied>>
    /\ UNCHANGED <<db, passes, sid, todo, pos, mismatches, context_stack, ctx,
                   grading_data, found, results, calls, answers, rstate>>

\* get_or_generate_report for the submission being graded
GetOrGenerateGraded(p) == RCall(p, "get", 1)

\* one caller grades submission 1 and asks for its report, one call after
\* another; the submission has two fragments, one for question 1 (blank or not)
\* and one for question 3
InitAbandon ==
    /\ Init
    /\ {a.question_id : a \in {b \in submission_items : b.submission_id = 1}} = {1, 3}
    /\ Cardinality({a \in submission_items : a.submission_id = 1}) = 2
    /\ solutions = {q.id : q \in Questions}

NextAbandon ==
    \E p \in SeqProcs :
        \/ GradeCall(p)
        \/ Pick(p)
        \/ GradeRespond(p)
        \/ SaveRead(p)
        \/ SaveWrite(p)
        \/ Advance(p)
        \/ Return(p)
        \/ Abandon(p)
        \/ GetOrGenerateGraded(p)
        \/ RCheck(p)
        \/ RQuery(p)
        \/ ReportRespond(p)
        \/ ReportSave(p)

SpecAbandon == InitAbandon /\ [][NextAbandon]_vars

\* two callers ask for reports at once; each step of a caller (the query of
\* get_latest_report, the request, the response, the save) is atomic
InitReportConc ==
    /\ Init
    /\ submission_items = OtherItems
    /\ solutions = {q.id : q \in Questions}

NextReportConc ==
    \E p \in Procs :
        \/ GetOrGenerate(p)
        \/ BuildFinal(p)
        \/ RCheck(p)
        \/ RQuery(p)
        \/ ReportRespond(p)
        \/ ReportSave(p)

SpecReportConc == InitReportConc /\ [][NextReportConc]_vars

\* ------------------------------------------------------------ matching runs
\* the fragments a submission of exam 1 is matched from: explicit references that
\* resolve (1, 2), that name no question (9) or a question of another exam (4),
\* and fragments without a reference (0) whose key is in the outline, has a
\* missing label, or is absent
MatchTemplates ==
    { [question_id |-> 1, order_index |-> 1, part_label |-> "a"],
      [question_id |-> 2, order_index |-> 2, part_label |-> ""],
      [question_id |-> 9, order_index |-> 1, part_label |-> "a"],
      [question_id |-> 4, order_index |-> 1, part_label |-> "b"],
      [question_id |-> 0, order_index |-> 1, part_label |-> "b"],
      [question_id |-> 0, order_index |-> 2, part_label |-> NoneLabel],
      [question_id |-> 0, order_index |-> 3, part_label |-> "a"] }

\* the positions the segmentation gives a fragment; two fragments may be given
\* the same position
MatchPositions == {1, 2}

\* the submission_items tables of the matching runs
MatchTables ==
    UNION { { { [id |-> n, submission_id |-> 1, question_id |-> ts[n].question_id,
                 order_index |-> ts[n].order_index, part_label |-> ts[n].part_label,
                 position |-> ps[n], answer_text |-> <<"x">>] : n \in 1..k }
              : ts \in [1..k -> MatchTemplates], ps \in [1..k -> MatchPositions] }
            : k \in 0..MaxItems }

\* grade_submission lines 192-197 for submission 1: the outline and the
\* fragments are read and matched
MatchRun ==
    /\ Len(m_runs) < MaxRuns
    /\ \E items \in get_submission_items(submission_items, 1) :
           m_runs' = Append(m_runs,
                            [items |-> items,
                             out |-> _match_pairs(get_questions_by_exam(1), items)])
    /\ UNCHANGED <<db, passes, locals, history, reporting, c_run, e_runs>>

InitMatch ==
    /\ submission_items \in MatchTables
    /\ solutions = {q.id : q \in Questions}
    /\ InitRest

NextMatch == MatchRun

SpecMatch == InitMatch /\ [][NextMatch]_vars

\* ------------------------------------------------------------ context runs
\* a text of n characters that differ from place to place
TextOf(n) == [i \in 1..n |-> IF i % 3 = 0 THEN "a" ELSE IF i % 3 = 1 THEN "b" ELSE "c"]

\* the (question, fragment) pairs a context stack is made of: texts that are
\* NULL, short, and just below, at and above the cut of 1200 characters
ContextPairs ==
    { [q |-> [id |-> 1, order_index |-> 1, part_label |-> "a", question_text |-> TextOf(3)],
       a |-> [id |-> 1, answer_text |-> TextOf(1500)]],
      [q |-> [id |-> 2, order_index |-> 1, part_label |-> "b", question_text |-> TextOf(1201)],
       a |-> [id |-> 2, answer_text |-> TextOf(1200)]],
      [q |-> [id |-> 3, order_index |-> 1, part_label |-> NoneLabel, question_text |-> TextOf(1500)],
       a |-> [id |-> 3, answer_text |-> TextOf(1201)]],
      [q |-> [id |-> 4, order_index |-> 1, part_label |-> "c", question_text |-> TextOf(1200)],
       a |-> [id |-> 4, answer_text |-> TextOf(1199)]],
      [q |-> [id |-> 5, order_index |-> 1, part_label |-> "d", question_text |-> NoneText],
       a |-> [id |-> 5, answer_text |-> TextOf(3)]],
      [q |-> [id |-> 6, order_index |-> 2, part_label |-> "a", question_text |-> TextOf(1199)],
       a |-> [id |-> 6, answer_text |-> NoneText]],
      [q |-> [id |-> 7, order_index |-> 2, part_label |-> "b", question_text |-> TextOf(1500)],
       a |-> [id |-> 7, answer_text |-> TextOf(1500)]] }

\* the context stacks: up to MaxItems pairs
ContextStacks == UNION { [1..k -> ContextPairs] : k \in 0..MaxItems }

\* _build_context(order_index, context_stack) is applied and its result kept
ContextRun ==
    /\ \E order_index \in {1, 2}, stack \in ContextStacks :
           c_run' = <<[order_index |-> order_index, stack |-> stack,
                       out |-> _build_context(order_index, stack)]>>
    /\ UNCHANGED <<db, passes, locals, history, reporting, m_runs, e_runs>>

InitContext ==
    /\ submission_items = OtherItems
    /\ solutions = {q.id : q \in Questions}
    /\ InitRest

NextContext == ContextRun

SpecContext == InitContext /\ [][NextContext]_vars

\* ------------------------------------------------------------ effort hints
\* _get_reasoning_effort: the argument is <<>> for None and <<d>> for the
\* integer d (int() of an Integer column does not raise)
_get_reasoning_effort(difficulty) ==
    IF difficulty = <<>> THEN "medium"
    ELSE LET d == difficulty[1]
         IN  IF d < 5 THEN "low"
             ELSE IF 6 <= d /\ d <= 8 THEN "medium"
             ELSE "high"

\* the values of questions.difficulty tried: NULL and the ranks 1..MaxDifficulty
Difficulties == {<<>>} \cup {<<d>> : d \in 1..MaxDifficulty}

\* line 214, and line 93 of solution_service.py: the hint is computed for a
\* question's difficulty
EffortRun ==
    /\ Len(e_runs) < MaxRuns
    /\ \E difficulty \in Difficulties :
           e_runs' = Append(e_runs, [difficulty |-> difficulty,
                                     out |-> _get_reasoning_effort(difficulty)])
    /\ UNCHANGED <<db, passes, locals, history, reporting, m_runs, c_run>>

InitEffort ==
    /\ submission_items = <<>>
    /\ solutions = {}
    /\ InitRest

NextEffort == EffortRun

SpecEffort == InitEffort /\ [][NextEffort]_vars

\* ============================================================ claims
\* the rows of the gradings table kept for (submission, question)
RowsFor(submission_id, question_id) ==
    {i \in DOMAIN gradings : /\ gradings[i].submission_id = submission_id
                             /\ gradings[i].question_id = question_id}

\* a caller is inside a pass, at a pair whose fragment is not blank, after the
\* context for that pair was built
AtGradedPair(p) ==
    /\ pc[p] \in {"oracle", "save_read", "save_write", "saved"}
    /\ ~IsBlank(Cur(p).a)

\* a caller has just committed the grading of the pair it is at
JustSaved(p) == pc[p] = "saved"

\* C1: after any sequence of grade_submission invocations run one after another,
\* the gradings table holds at most one row for each (submission, question): a
\* re-grade overwrites the row and never adds a second one.
C1_OneRowPerPair ==
    \A i, j \in DOMAIN gradings :
        (/\ gradings[i].submission_id = gradings[j].submission_id
         /\ gradings[i].question_id = gradings[j].question_id) => i = j

\* a second pass has just overwritten the row the first pass inserted
C1_Witness ==
    /\ passes = 2
    /\ JustSaved(1)
    /\ found[1] # 0
    /\ Len(gradings) = 1

\* C2: when two invocations for the same submission overlap, with their query and
\* insert/update steps interleaved in any order, the table still ends with at most
\* one row per (submission, question).
C2_OneRowPerPairWhenConcurrent ==
    (\A p \in Procs : pc[p] \in {"idle", "done", "raised"}) =>
        \A s \in SubmissionIds, q \in {x.id : x \in Questions} :
            Cardinality(RowsFor(s, q)) <= 1

\* C3: running grade_submission again on the same submission, with the same
\* questions and fragments and an oracle that repeats its answers, leaves the
\* gradings table (the rows and every field of each) as the first run left it;
\* the second run sends no request the first did not send.
C3_RegradeIdempotent ==
    \A p \in SeqProcs :
        passes >= 2 =>
            /\ pc[p] \in {"done", "raised"} => gradings = first_rows
            /\ pc[p] = "oracle" => Len(answers[p]) < Len(first_answers)

\* a second run has ended after overwriting rows with the answers of the first
C3_Witness ==
    /\ passes = 2
    /\ pc[1] = "done"
    /\ Len(first_answers) = 2
    /\ Len(first_rows) = 2
    /\ answers[1] = first_answers

\* C4: grade_submission returns exactly one GradingResult for every matched pair
\* of the submission, in order, and none for an unmatched fragment.
C4_OneResultPerMatchedPair ==
    \A p \in SeqProcs :
        pc[p] = "done" =>
            /\ Len(results[p]) = Len(todo[p])
            /\ \A k \in DOMAIN results[p] :
                   results[p][k].question_id = todo[p][k].q.id

\* C5: a failure while grading one pair is confined to that pair: the pass goes
\* on to the other pairs and returns; it never ends by raising.
C5_FailureConfined ==
    \A p \in SeqProcs :
        /\ pc[p] # "raised"
        /\ pc[p] = "done" =>
               \A k \in DOMAIN todo[p] : RowsFor(sid[p], todo[p][k].q.id) # {}

\* the knowledge-topic tags of a question: the list app.py serialised into the
\* knowledge_topics column
TopicTags(q) == q.knowledge_topics[2]

\* the requests a pass has sent when it stands at index k: one for each fragment
\* before k that is not blank
RequestsBefore(t, k) == Cardinality({n \in 1..(k - 1) : ~IsBlank(t[n].a)})

\* C6: for a matched pair whose fragment text is empty or whitespace-only, no
\* oracle request is sent for the pair and the grading persisted for it has the
\* question's knowledge-topic tags as knowledge gaps, no error tags and
\* correctness false.
C6_BlankFragmentGrading ==
    \A p \in SeqProcs :
        (pc[p] \in {"save_read", "save_write", "saved"} /\ IsBlank(Cur(p).a)) =>
            /\ Len(calls[p]) = RequestsBefore(todo[p], pos[p])
            /\ \A c \in Range(calls[p]) : Strip(OrEmpty(c.student_answer)) # <<>>
            /\ JustSaved(p) =>
                 /\ Cardinality(RowsFor(sid[p], Cur(p).q.id)) = 1
                 /\ \A i \in RowsFor(sid[p], Cur(p).q.id) :
                        /\ gradings[i].knowledge_gaps = json_dumps(TopicTags(Cur(p).q))
                        /\ gradings[i].calculation_logic_errors = json_dumps(<<>>)
                        /\ gradings[i].is_correct = 0

\* a whitespace-only fragment of a question with topics has just been saved, after
\* a fragment that did go to the oracle
C6_Witness ==
    /\ JustSaved(1)
    /\ Cur(1).a.answer_text = <<" ">>
    /\ TopicTags(Cur(1).q) # <<>>
    /\ Len(calls[1]) = 1

\* C7: every entry of the context list built for a pair P of group G comes from a
\* pair of G handled strictly before P in the same pass; never from P itself, a
\* later pair or a pair of another group.
C7_ContextFromEarlierSiblings ==
    \A p \in SeqProcs :
        AtGradedPair(p) =>
            \A n \in DOMAIN ctx[p] :
                /\ ctx[p][n].item_id # Cur(p).a.id
                /\ \E k \in 1..(pos[p] - 1) :
                       /\ todo[p][k].a.id = ctx[p][n].item_id
                       /\ todo[p][k].q.order_index = Cur(p).q.order_index
                       /\ ctx[p][n].part_label = LabelOrEmpty(todo[p][k].q.part_label)
                       /\ ctx[p][n].student_answer = todo[p][k].a.answer_text

\* the second pair of a group is at the oracle with its elder sibling as context
C7_Witness ==
    /\ pc[1] = "oracle"
    /\ pos[1] = 2
    /\ Len(ctx[1]) = 1
    /\ ctx[1][1].item_id = todo[1][1].a.id

\* the index of the pair at k among the pairs of its group
IndexInGroup(t, k) ==
    Cardinality({n \in 1..k : t[n].q.order_index = t[k].q.order_index})

\* the fragments of the group of the pair at k that went to the oracle before it
GradedSiblings(t, k) ==
    SelectSeq(SubSeq(t, 1, k - 1),
              LAMBDA x : x.q.order_index = t[k].q.order_index /\ ~IsBlank(x.a))

SchemaValid(g) ==
    /\ SchemaFields \subseteq DOMAIN g
    /\ g.knowledge_gaps \in Seq(STRING)
    /\ g.calculation_logic_errors \in Seq(STRING)
    /\ g.llm_feedback \in Seq(STRING)
    /\ g.is_correct \in BOOLEAN

\* the step in which caller p receives a response that does not parse
UnparsedResponse(p) ==
    /\ pc[p] = "oracle"
    /\ pc'[p] # "oracle"
    /\ answers'[p][Len(answers'[p])].kind = "garbage"

HoldsUnparsed(p) ==
    /\ pc[p] \in {"save_read", "save_write", "saved"}
    /\ rstate[p] = "Failed"
    /\ answers[p][Len(answers[p])].kind = "garbage"

\* C10 as claimed: the grading used for a response that cannot be parsed is the
\* schema default: both lists empty, the judgement text empty, correctness false.
C10_FailedGivesEmptyDefault ==
    \A p \in SeqProcs :
        HoldsUnparsed(p) =>
            /\ grading_data[p].knowledge_gaps = <<>>
            /\ grading_data[p].calculation_logic_errors = <<>>
            /\ grading_data[p].llm_feedback = <<>>
            /\ grading_data[p].is_correct = FALSE

\* C10 as amended: the grading used for a response that cannot be parsed is the
\* fallback of _call_grading_ai: one knowledge-gap tag reporting the system error,
\* no error tags, a judgement text that carries the error message, correctness
\* false; that is what is persisted for the pair.
C10_FailedGivesErrorFallback ==
    \A p \in SeqProcs :
        HoldsUnparsed(p) =>
            /\ Len(grading_data[p].knowledge_gaps) = 1
            /\ grading_data[p].calculation_logic_errors = <<>>
            /\ Len(grading_data[p].llm_feedback) = 2
            /\ grading_data[p].llm_feedback[1] = "Loi khi cham bai: "
            /\ grading_data[p].is_correct = FALSE
            /\ JustSaved(p) =>
                 \A i \in RowsFor(sid[p], Cur(p).q.id) :
                     /\ gradings[i].knowledge_gaps = json_dumps(grading_data[p].knowledge_gaps)
                     /\ gradings[i].calculation_logic_errors = json_dumps(<<>>)
                     /\ gradings[i].llm_feedback = grading_data[p].llm_feedback
                     /\ gradings[i].is_correct = 0

\* the fallback for an unparseable response has just overwritten an earlier row
C10_Witness ==
    /\ JustSaved(1)
    /\ HoldsUnparsed(1)
    /\ found[1] # 0
    /\ gradings[found[1]].llm_feedback = <<"Loi khi cham bai: ", "JSONDecodeError">>

\* the caller has received the oracle's response for the pair it is at
Answered(p) == rstate[p] \in {"Parsed", "Failed"}

\* C11: whatever text the oracle returns for a pair (unparseable, or JSON that
\* lacks a required field), the value used for the pair has the four schema
\* fields, it is persisted, and the pass goes on: the response never makes
\* grade_submission raise.
C11_MalformedOutputContained ==
    \A p \in SeqProcs :
        Answered(p) =>
            /\ pc[p] # "raised"
            /\ SchemaValid(grading_data[p])
            /\ JustSaved(p) => RowsFor(sid[p], Cur(p).q.id) # {}

\* the reports of a submission in a reports table, as indexes in insertion order
ReportsOf(table, submission_id) ==
    {i \in DOMAIN table : table[i].submission_id = submission_id}

\* C12: get_or_generate_report sends a request to the report-generation oracle
\* only when the submission has no report; when it has one, the call returns
\* the stored text of the report created last and adds no report, whatever
\* happened to the gradings since.
C12_StoredReportReused ==
    \A p \in SeqProcs :
        (rkind[p] = "get" /\ rpc[p] # "idle") =>
            LET had == ReportsOf(rstart[p], rsid[p])
            IN  /\ rcalls[p] # <<>> => had = {}
                /\ had # {} =>
                     /\ reports = rstart[p]
                     /\ rpc[p] \in {"check", "returned"}
                     /\ rpc[p] = "returned" =>
                            \E i \in had : /\ \A j \in had : j <= i
                                           /\ rret[p] = rstart[p][i].report_content

\* a submission with two reports of different text was re-graded after the
\* second one was made, and get_or_generate_report returned the second
C12_Witness ==
    /\ rpc[1] = "returned"
    /\ rkind[1] = "get"
    /\ Cardinality(ReportsOf(reports, rsid[1])) = 2
    /\ \E i, j \in ReportsOf(reports, rsid[1]) :
           /\ i < j
           /\ reports[i].report_content # reports[j].report_content
           /\ rret[1] = reports[j].report_content
    /\ prev[1].kind = "build"
    /\ prev[1].passes < passes
    /\ pc[1] = "done"
    /\ RowsFor(rsid[1], 1) # {}

\* C13: two consecutive calls of get_or_generate_report for one submission, with
\* no grading pass between them, return the same text, whatever the oracle or the
\* save did during the first call.
C13_ConsecutiveCallsAgree ==
    \A p \in SeqProcs :
        (/\ rpc[p] = "returned"
         /\ rkind[p] = "get"
         /\ prev[p].kind = "get"
         /\ prev[p].sid = rsid[p]
         /\ prev[p].passes = passes) => rret[p] = prev[p].ret

\* C14: report history is append-only: no step of build_final_report or
\* get_or_generate_report changes or removes a report; a generation whose save
\* succeeds adds exactly one report, which holds the text the call returns.
C14_ReportsAppendOnly ==
    [][\/ reports' = reports
       \/ \E p \in SeqProcs :
              /\ rpc[p] = "save"
              /\ rpc'[p] = "returned"
              /\ Len(reports') = Len(reports) + 1
              /\ SubSeq(reports', 1, Len(reports)) = reports
              /\ reports'[Len(reports')].submission_id = rsid[p]
              /\ reports'[Len(reports')].report_content = rret'[p]
              /\ \A i \in DOMAIN reports :
                     reports[i].created_at # reports'[Len(reports')].created_at]_vars

\* a second report was added for a submission and the first one is as it was
C14_Witness ==
    /\ rpc[1] = "returned"
    /\ Len(reports) = 2
    /\ reports[1].submission_id = reports[2].submission_id
    /\ reports[1].report_content # reports[2].report_content
    /\ reports[1].created_at = 1
    /\ rret[1] = reports[2].report_content

\* C15: when two calls of get_or_generate_report for a submission without a
\* report overlap, the report-generation oracle is called once, one report is
\* created, and both calls return the same text.
C15_OneReportWhenConcurrent ==
    \A p, q \in Procs :
        (/\ p # q
         /\ rpc[p] = "returned" /\ rpc[q] = "returned"
         /\ rkind[p] = "get" /\ rkind[q] = "get"
         /\ rsid[p] = rsid[q]
         /\ overlapped[p] /\ overlapped[q]
         /\ ReportsOf(rstart[p], rsid[p]) = {}
         /\ ReportsOf(rstart[q], rsid[q]) = {}) =>
            /\ Len(rcalls[p]) + Len(rcalls[q]) = 1
            /\ Cardinality(ReportsOf(reports, rsid[p])) = 1
            /\ rret[p] = rret[q]

\* the questions of exam 1 whose (group index, part label) is the fragment's
KeyedLike(a) ==
    {q \in Questions : /\ q.exam_id = 1
                       /\ q.order_index = a.order_index
                       /\ LabelOrEmpty(q.part_label) = LabelOrEmpty(a.part_label)}

\* the questions of exam 1 the fragment's explicit reference names
ReferredBy(a) == {q \in Questions : q.exam_id = 1 /\ q.id = a.question_id}

\* the questions paired with fragment a in a result
QuestionsOf(out, a) ==
    {out.pairs_by_order[g][n].q :
        <<g, n>> \in {gn \in (DOMAIN out.pairs_by_order) \X (1..MaxItems + 1) :
                         /\ gn[2] \in DOMAIN out.pairs_by_order[gn[1]]
                         /\ out.pairs_by_order[gn[1]][gn[2]].a = a}}

\* C16 as claimed: a fragment whose explicit reference names no question of the
\* outline is resolved through the (group index, part label) lookup and is
\* unmatched only if the lookup finds nothing.
C16_UnresolvedReferenceFallsBack ==
    \A r \in DOMAIN m_runs :
        \A a \in Range(m_runs[r].items) :
            (a.question_id # 0 /\ ReferredBy(a) = {}) =>
                /\ QuestionsOf(m_runs[r].out, a) = KeyedLike(a)
                /\ (a \in Range(m_runs[r].out.mismatches)) <=> (KeyedLike(a) = {})

\* C16 as amended: a fragment whose explicit reference names no question of the
\* outline is unmatched, whatever its (group index, part label); the lookup
\* resolves only the fragments that carry no reference, and such a fragment is
\* unmatched only if the lookup finds nothing.
C16_UnresolvedReferenceUnmatched ==
    \A r \in DOMAIN m_runs :
        \A a \in Range(m_runs[r].items) :
            /\ (a.question_id # 0 /\ ReferredBy(a) = {}) =>
                  /\ QuestionsOf(m_runs[r].out, a) = {}
                  /\ a \in Range(m_runs[r].out.mismatches)
            /\ (a.question_id # 0 /\ ReferredBy(a) # {}) =>
                  /\ QuestionsOf(m_runs[r].out, a) = ReferredBy(a)
                  /\ a \notin Range(m_runs[r].out.mismatches)
            /\ a.question_id = 0 =>
                  /\ QuestionsOf(m_runs[r].out, a) = KeyedLike(a)
                  /\ (a \in Range(m_runs[r].out.mismatches)) <=> (KeyedLike(a) = {})

\* a run left unmatched a fragment whose reference names no question although
\* its key is in the outline, and matched a fragment without reference by its key
C16_Witness ==
    \E r \in DOMAIN m_runs :
        \E a, b \in Range(m_runs[r].items) :
            /\ a.question_id = 9 /\ KeyedLike(a) # {}
            /\ a \in Range(m_runs[r].out.mismatches)
            /\ b.question_id = 0 /\ QuestionsOf(m_runs[r].out, b) # {}

\* the fragments of the submission a pass works on
FragmentsOf(p) == {a \in submission_items : a.submission_id = sid[p]}

\* how often fragment a occurs among the pairs and among the unmatched
TimesPaired(p, a) == Cardinality({k \in DOMAIN todo[p] : todo[p][k].a = a})
TimesUnmatched(p, a) == Cardinality({k \in DOMAIN mismatches[p] : mismatches[p][k] = a})

\* C17: matching partitions the fragments: every fragment of the submission is
\* in exactly one pair of the bucket of its question or in the unmatched list,
\* never both, never dropped; an unmatched fragment is never graded and raises
\* nothing.
C17_FragmentsPartitioned ==
    \A p \in SeqProcs :
        (pc[p] # "idle" /\ _get_submission(sid[p]) # {}) =>
            /\ \A a \in FragmentsOf(p) : TimesPaired(p, a) + TimesUnmatched(p, a) = 1
            /\ Len(todo[p]) + Len(mismatches[p]) = Cardinality(FragmentsOf(p))
            /\ \A k \in DOMAIN todo[p] : todo[p][k].q.id = todo[p][k].a.question_id
            /\ \A a \in Range(mismatches[p]) :
                   /\ \A q \in Range(get_questions_by_exam(
                                        (CHOOSE s \in _get_submission(sid[p]) : TRUE).exam_id)) :
                          q.id # a.question_id
                   /\ RowsFor(sid[p], a.question_id) = {}
                   /\ pc[p] \in {"oracle", "save_read", "save_write", "saved"} =>
                          Cur(p).a # a

\* a pass over a matched and an unmatched fragment has ended
C17_Witness ==
    /\ pc[1] = "done"
    /\ Len(todo[1]) = 1
    /\ Len(mismatches[1]) = 1
    /\ Len(results[1]) = 1
    /\ Len(gradings) = 1

\* the buckets of a matching result are in position order
InPositionOrder(out) ==
    \A g \in DOMAIN out.pairs_by_order :
        \A i, j \in DOMAIN out.pairs_by_order[g] :
            i < j => out.pairs_by_order[g][i].a.position
                        <= out.pairs_by_order[g][j].a.position

\* C18: within every bucket the pairs are in the order of the fragments'
\* position, and fragments of equal position keep a fixed relative order: every
\* run over the same fragments yields the same buckets.
C18_BucketsInFixedPositionOrder ==
    /\ \A r \in DOMAIN m_runs : InPositionOrder(m_runs[r].out)
    /\ \A r, s \in DOMAIN m_runs :
           m_runs[r].out.pairs_by_order = m_runs[s].out.pairs_by_order

\* text t is text s cut at n characters: s itself when it is no longer than n,
\* else its first n characters
CutAt(t, s, n) ==
    /\ Len(t) <= n
    /\ Len(s) <= n => t = s
    /\ Len(s) > n => Len(t) = n /\ \A i \in 1..n : t[i] = s[i]

\* C20: in every context entry the question text and the fragment text have at
\* most 1200 characters, the same bound for both, and each is its source text
\* cut at that length.
C20_ContextTextsCut ==
    /\ CTX_MAX_CHARS_QUESTION = 1200
    /\ CTX_MAX_CHARS_ANSWER = CTX_MAX_CHARS_QUESTION
    /\ \A r \in DOMAIN c_run :
           \A n \in DOMAIN c_run[r].out :
               \E k \in DOMAIN c_run[r].stack :
                   LET e == c_run[r].out[n]
                       src == c_run[r].stack[k]
                   IN  /\ src.a.id = e.item_id
                       /\ CutAt(e.question_text, OrEmpty(src.q.question_text), 1200)
                       /\ CutAt(e.student_answer, OrEmpty(src.a.answer_text), 1200)

\* a context was built from a pair whose question text and fragment text are
\* both longer than the cut
C20_Witness ==
    /\ c_run # <<>>
    /\ \E n \in DOMAIN c_run[1].out :
           /\ c_run[1].out[n].item_id = 7
           /\ Len(c_run[1].out[n].question_text) = 1200
           /\ Len(c_run[1].out[n].student_answer) = 1200

\* the submission is not in the database, or its exam has no questions
NothingToGrade(submission_id) ==
    \A x \in _get_submission(submission_id) :
        \A q \in Questions : q.exam_id # x.exam_id

\* C21: when the submission does not exist, or its exam has no questions,
\* grade_submission returns an empty list without raising, makes no oracle call
\* and writes no Grading row.
C21_NothingToGradeReturnsEmpty ==
    /\ \A p \in SeqProcs :
          (pc[p] # "idle" /\ NothingToGrade(sid[p])) =>
              /\ pc[p] \in {"loop", "done"}
              /\ todo[p] = <<>>
              /\ results[p] = <<>>
              /\ calls[p] = <<>>
    /\ \A i \in DOMAIN gradings : ~NothingToGrade(gradings[i].submission_id)

\* a pass on the submission whose exam has no questions has returned: its
\* fragment went to the mismatches, and the only row is from an earlier pass on
\* another submission
C21_Witness ==
    /\ pc[1] = "done"
    /\ sid[1] = 3
    /\ passes = 2
    /\ Len(mismatches[1]) = 1
    /\ results[1] = <<>>
    /\ Len(gradings) = 1

\* the step in which the request of caller p ends with an exception
RaisedResponse(p) ==
    /\ pc[p] = "oracle"
    /\ pc'[p] # "oracle"
    /\ answers'[p][Len(answers'[p])].kind = "raise"

\* the caller holds the grading made for a request that raised
HoldsRaised(p) ==
    /\ pc[p] \in {"save_read", "save_write", "saved"}
    /\ rstate[p] = "Failed"
    /\ answers[p][Len(answers[p])].kind = "raise"

\* C22: when the oracle call for a pair raises, the grading persisted for that
\* pair is a schema-valid fallback with correctness false and an explanatory
\* message in the judgement text, and the pass goes on to the pairs after it.
C22_RaisedCallGivesFallback ==
    [][\A p \in SeqProcs :
          /\ RaisedResponse(p) =>
                /\ pc'[p] = "save_read"
                /\ SchemaValid(grading_data'[p])
                /\ grading_data'[p].is_correct = FALSE
                /\ grading_data'[p].llm_feedback = <<"Loi khi cham bai: ", "APIError">>
          /\ (HoldsRaised(p) /\ pc[p] = "save_write" /\ pc'[p] # "save_write") =>
                /\ JustSaved(p)'
                /\ \A i \in RowsFor(sid[p], Cur(p).q.id)' :
                       /\ gradings'[i].llm_feedback = grading_data[p].llm_feedback
                       /\ gradings'[i].is_correct = 0
                       /\ gradings'[i].knowledge_gaps =
                              json_dumps(grading_data[p].knowledge_gaps)
                       /\ gradings'[i].calculation_logic_errors = json_dumps(<<>>)
                /\ RowsFor(sid[p], Cur(p).q.id)' # {}
          /\ (HoldsRaised(p) /\ pc[p] = "saved" /\ pc'[p] # "saved") =>
                /\ pc'[p] = "loop"
                /\ pos'[p] = pos[p] + 1
                /\ todo'[p] = todo[p]
      ]_vars

\* the request of the first pair raised, its fallback was saved, and the second
\* pair has been graded by the oracle and saved after it
C22_Witness ==
    /\ JustSaved(1)
    /\ pos[1] = 2
    /\ Len(answers[1]) = 2
    /\ answers[1][1].kind = "raise"
    /\ answers[1][2].kind = "json"
    /\ Len(gradings) = 2
    /\ gradings[1].llm_feedback = <<"Loi khi cham bai: ", "APIError">>
    /\ gradings[2].llm_feedback = <<"feedback">>

\* C23: for every non-empty matched pair, the request grade_submission sends to
\* the assessment oracle carries the current question's text, the fragment's
\* text and the context chain built for that pair.
C23_RequestCarriesQuestionAndContext ==
    \A p \in SeqProcs :
        pc[p] = "oracle" =>
            LET r == calls[p][Len(calls[p])]
                payload == _make_payload(Cur(p), ctx[p])
            IN  /\ r.student_answer = Cur(p).a.answer_text
                /\ "question_text" \in DOMAIN r
                /\ "context_previous" \in DOMAIN r
                /\ r.question_text = payload.current.question_text
                /\ r.context_previous = payload.context_previous

\* a list of pairs runs through the groups in ascending index and, inside a
\* group, in the order of the fragments' positions (the order of the bucket)
InGroupOrder(t) ==
    \A i, j \in DOMAIN t :
        i < j =>
            /\ t[i].q.order_index <= t[j].q.order_index
            /\ t[i].q.order_index = t[j].q.order_index =>
                   t[i].a.position <= t[j].a.position

\* C24: within one grade_submission pass the groups are processed in ascending
\* group index and each group is finished before the next begins: the pass walks
\* one list ordered by group and by bucket order, a request or a write is always
\* for the pair the walk is at, and the walk only moves forward, one pair at a
\* time, after that pair's write.
C24_GroupsInAscendingOrder ==
    [][\A p \in SeqProcs :
          /\ InGroupOrder(todo'[p])
          /\ \A i \in DOMAIN gradings' :
                (i \notin DOMAIN gradings \/ gradings'[i] # gradings[i]) =>
                    /\ pc[p] = "save_write"
                    /\ gradings'[i].submission_id = sid[p]
                    /\ gradings'[i].question_id = Cur(p).q.id
          /\ Len(calls'[p]) > Len(calls[p]) =>
                /\ pc[p] = "loop"
                /\ calls'[p][Len(calls'[p])].question_id = Cur(p).q.id
          /\ pos'[p] # pos[p] =>
                \/ pc[p] = "saved" /\ pos'[p] = pos[p] + 1 /\ todo'[p] = todo[p]
                \/ pc[p] \in {"idle", "done", "raised"} /\ pos'[p] = 1
          /\ todo'[p] # todo[p] => pc[p] \in {"idle", "done", "raised"}
      ]_vars

\* the fragment of group 2 came before the fragment of group 1 in the
\* submission, and the pair of group 2 has been written after the pair of group 1
C24_Witness ==
    /\ JustSaved(1)
    /\ pos[1] = 2
    /\ todo[1][1].q.order_index = 1
    /\ todo[1][2].q.order_index = 2
    /\ todo[1][2].a.position < todo[1][1].a.position
    /\ Len(gradings) = 2
    /\ gradings[1].question_id = todo[1][1].q.id
    /\ gradings[2].question_id = todo[1][2].q.id

\* the three hints in their order
EffortRank(e) == CASE e = "low" -> 1 [] e = "medium" -> 2 [] e = "high" -> 3

\* C25: the effort hint chosen by _get_reasoning_effort for the difficulty ranks
\* 1..10 forms three ordered tiers, low, then medium, then high: the hint never
\* decreases when the difficulty rank increases.
C25_EffortNeverDecreases ==
    \A r, s \in DOMAIN e_runs :
        (/\ e_runs[r].difficulty # <<>>
         /\ e_runs[s].difficulty # <<>>
         /\ e_runs[r].difficulty[1] <= e_runs[s].difficulty[1]) =>
            EffortRank(e_runs[r].out) <= EffortRank(e_runs[s].out)

C30_FailedReportNotStored ==
    [][\A p \in SeqProcs :
          /\ (rpc[p] = "oracle" /\ rpc'[p] \notin {"oracle", "save"}) =>
                /\ rpc'[p] = "returned"
                /\ rret'[p] = ReportError
                /\ reports' = reports
          /\ (rpc[p] = "check" /\ rpc'[p] # "check"
              /\ ReportsOf(reports, rsid[p]) = {}) => rpc'[p] = "query"
          /\ (rpc[p] = "query" /\ rpc'[p] # "query") =>
                /\ rpc'[p] = "oracle"
                /\ Len(rcalls'[p]) = Len(rcalls[p]) + 1
                /\ rcalls'[p][Len(rcalls'[p])].submission_id = rsid[p]
      ]_vars

\* a report call failed and left no report; the get_or_generate_report made
\* after it sent the request again and its text was stored
C30_Witness ==
    /\ rpc[1] = "returned"
    /\ rkind[1] = "get"
    /\ prev[1].kind = "get"
    /\ prev[1].sid = rsid[1]
    /\ prev[1].ret = ReportError
    /\ Len(rcalls[1]) = 1
    /\ rret[1] = <<"R1">>
    /\ rstart[1] = <<>>
    /\ Len(reports) = 1
    /\ reports[1].report_content = <<"R1">>

\* question question_id is a question of the exam submission submission_id sits
OfOwnExam(submission_id, question_id) ==
    \E x \in _get_submission(submission_id) :
        \E q \in Questions : q.id = question_id /\ q.exam_id = x.exam_id

\* C28: every question paired by _match_pairs inside grade_submission belongs to
\* the exam of the submission being graded: a fragment whose explicit reference
\* names a question of another exam is left unmatched, and no Grading row is
\* written for a question outside the submission's exam.
C28_PairedQuestionsOfOwnExam ==
    /\ \A p \in SeqProcs :
          pc[p] # "idle" =>
              /\ \A k \in DOMAIN todo[p] : OfOwnExam(sid[p], todo[p][k].q.id)
              /\ \A a \in FragmentsOf(p) :
                    (/\ \E q \in Questions : q.id = a.question_id
                     /\ ~OfOwnExam(sid[p], a.question_id)) =>
                        /\ a \in Range(mismatches[p])
                        /\ \A k \in DOMAIN todo[p] : todo[p][k].a # a
    /\ \A i \in DOMAIN gradings :
          OfOwnExam(gradings[i].submission_id, gradings[i].question_id)

\* a pass on submission 2 has returned: its fragment referring to question 1 of
\* the other exam is unmatched, and its only row is for its own question 4
C28_Witness ==
    /\ pc[1] = "done"
    /\ sid[1] = 2
    /\ \E k \in DOMAIN mismatches[1] : mismatches[1][k].question_id = 1
    /\ Len(todo[1]) = 1
    /\ RowsFor(2, 4) # {}
    /\ RowsFor(2, 1) = {}

\* the pair at index k of a list is one of several pairs of its question, and
\* whether it is the last of them
IsRepeated(t, k) == \E j \in DOMAIN t : j # k /\ t[j].q.id = t[k].q.id
IsLastFor(t, k) == \A j \in DOMAIN t : t[j].q.id = t[k].q.id => j <= k

\* the index in the returned list of the GradingResult of the pair at index k
\* (blank fragments add no GradingResult)
ResultIndex(t, k) == Cardinality({j \in 1..k : ~IsBlank(t[j].a)})

\* a stored row holds the grading g
Corresponds(g, row) ==
    /\ row.knowledge_gaps = json_dumps(g.knowledge_gaps)
    /\ row.calculation_logic_errors = json_dumps(g.calculation_logic_errors)
    /\ row.llm_feedback = g.llm_feedback
    /\ row.is_correct = (IF g.is_correct THEN 1 ELSE 0)

\* after a pass that reached its end, the one row of a question matched by
\* several fragments holds the grading of the last of them: the synthesized
\* not-attempted grading for a blank fragment, else the GradingResult of that
\* fragment
RowHoldsLastGrading(p) ==
    \A k \in DOMAIN todo[p] :
        (IsRepeated(todo[p], k) /\ IsLastFor(todo[p], k)) =>
            /\ Cardinality(RowsFor(sid[p], todo[p][k].q.id)) = 1
            /\ \A i \in RowsFor(sid[p], todo[p][k].q.id) :
                   IF IsBlank(todo[p][k].a)
                   THEN Corresponds(MissingGrading(todo[p][k].q), gradings[i])
                   ELSE Corresponds(results[p][ResultIndex(todo[p], k)], gradings[i])

GradingsFor(q) ==
    {MissingGrading(q)} \cup
    {_call_grading_ai(o) : o \in {x \in OracleOutcomes :
                                     SchemaFields \subseteq DOMAIN _call_grading_ai(x)}}

\* every row is complete: its four fields are those of one single grading
RowsComplete ==
    \A i \in DOMAIN gradings :
        \E q \in Questions :
            /\ q.id = gradings[i].question_id
            /\ \E g \in GradingsFor(q) : Corresponds(g, gradings[i])

\* a compact list sent to the report oracle has one entry for each row the
\* submission has, carrying that row's judgement
BuiltFromRows(compact, submission_id) ==
    /\ Len(compact) = Cardinality({i \in DOMAIN gradings :
                                      gradings[i].submission_id = submission_id})
    /\ \A i \in DOMAIN gradings :
          gradings[i].submission_id = submission_id =>
              \E n \in DOMAIN compact :
                  /\ compact[n].llm_feedback = gradings[i].llm_feedback
                  /\ compact[n].is_correct = (gradings[i].is_correct # 0)
                  /\ json_dumps(compact[n].knowledge_gaps) = gradings[i].knowledge_gaps
                  /\ \E q \in Questions : /\ q.id = gradings[i].question_id
                                          /\ q.order_index = compact[n].order_index

\* caller p asked get_or_generate_report for the submission of its abandoned
\* pass, after the pass was abandoned, and the call has returned
ReportedAfterAbandon(p) ==
    /\ pc[p] = "abandoned"
    /\ rpc[p] = "returned"
    /\ rkind[p] = "get"
    /\ rsid[p] = sid[p]
    /\ rpass[p] = passes

\* C26 as claimed: a grading pass abandoned between two pairs leaves a
\* consistent state: every row is complete, there is at most one row per
\* (submission, question), and get_or_generate_report on that submission returns
\* a report built from the rows present.
C26_AbandonedPassReportFromRows ==
    \A p \in SeqProcs :
        pc[p] = "abandoned" =>
            /\ RowsComplete
            /\ \A i, j \in DOMAIN gradings :
                  (/\ gradings[i].submission_id = gradings[j].submission_id
                   /\ gradings[i].question_id = gradings[j].question_id) => i = j
            /\ ReportedAfterAbandon(p) =>
                  /\ Len(rcalls[p]) = 1
                  /\ BuiltFromRows(rcalls[p][1].compact, rsid[p])
                  /\ rret[p] = rtext[p]
                  /\ rret[p] \in {o.content : o \in {x \in ReportOutcomes : x.kind = "text"}}

\* C26 as amended: the rows are complete and at most one per (submission,
\* question); get_or_generate_report on that submission returns the stored text
\* when a report is stored, and otherwise sends one request built from exactly
\* the rows present and returns the oracle's text, or the fixed error text when
\* the request fails.
C26_AbandonedPassConsistent ==
    \A p \in SeqProcs :
        pc[p] = "abandoned" =>
            /\ RowsComplete
            /\ \A i, j \in DOMAIN gradings :
                  (/\ gradings[i].submission_id = gradings[j].submission_id
                   /\ gradings[i].question_id = gradings[j].question_id) => i = j
            /\ ReportedAfterAbandon(p) =>
                  IF ReportsOf(rstart[p], rsid[p]) # {}
                  THEN /\ rcalls[p] = <<>>
                       /\ \E i \in ReportsOf(rstart[p], rsid[p]) :
                              rret[p] = rstart[p][i].report_content
                  ELSE /\ Len(rcalls[p]) = 1
                       /\ BuiltFromRows(rcalls[p][1].compact, rsid[p])
                       /\ \/ rret[p] = ReportError /\ reports = rstart[p]
                          \/ /\ rret[p] = rtext[p]
                             /\ rret[p] \in {o.content :
                                               o \in {x \in ReportOutcomes : x.kind = "text"}}

\* a pass was abandoned after the write of its first pair, leaving one row and
\* nothing for the second pair; get_or_generate_report then built a report from
\* that one row and it was stored
C26_Witness ==
    /\ ReportedAfterAbandon(1)
    /\ Len(todo[1]) = 2
    /\ pos[1] = 1
    /\ Len(gradings) = 1
    /\ RowsFor(sid[1], todo[1][2].q.id) = {}
    /\ Len(rcalls[1]) = 1
    /\ Len(rcalls[1][1].compact) = 1
    /\ Len(reports) = 1
    /\ rret[1] = reports[1].report_content

====
